---- MODULE Spec2Model ----
(***************************************************************************)
(* goback: the retention engine (retention/policy.go), the backup pipeline *)
(* (backup.Executor.ExecuteBackup), the compressors and the orchestrator   *)
(* loop of main.go, as state machines over one abstract filesystem.        *)
(*                                                                         *)
(* A file name is a sequence of tokens (strings): name segments, "-", ".", *)
(* extensions and one 14-digit timestamp token.  No token is a proper      *)
(* prefix of another, so strings.HasPrefix and strings.LastIndex on the    *)
(* real names coincide with their token-wise versions below.               *)
(***************************************************************************)
EXTENDS Integers, Sequences, FiniteSets, TLC

\* ------------------------------------------------------------------ bounds

\* Largest daily and weekly count of a retention policy.
MaxCount == 2
\* Largest monthly and yearly count of a retention policy.
MaxLongCount == 1
\* Largest number of managed archives in the directory before retention runs.
MaxFiles == 3
\* Largest number of os.Remove calls that fail within one ApplyRetention.
MaxFaults == 1
\* Largest number of backups in the configuration of one invocation.
MaxBackups == 2

\* ------------------------------------------------------------- time.Time

\* A time.Time is an instant, counted in hours since 1970-01-01T00:00 in the
\* time zone of the archives; its calendar fields are computed from it.

\* Days since 1970-01-01 of a civil date (proleptic Gregorian calendar).
DayNumber(y, m, d) ==
  LET yy  == IF m <= 2 THEN y - 1 ELSE y
      era == yy \div 400
      yoe == yy - era * 400
      mp  == (m + 9) % 12
      doy == (153 * mp + 2) \div 5 + d - 1
      doe == yoe * 365 + yoe \div 4 - yoe \div 100 + doy
  IN  era * 146097 + doe - 719468

\* time.Date(y, m, d, h, 0, 0, 0, loc)
Date(y, m, d, h) == DayNumber(y, m, d) * 24 + h

\* t.Year(), t.Month(), t.Day() and the hour of the day: the civil date of
\* the day number z = days since 0000-03-01, computed era by era (era: 400
\* years; doe, yoe, doy: day of era, year of era, day of year; mp: month
\* counted from March).
CivilOfMonth(era, yoe, doy, mp, h) ==
  [y |-> yoe + era * 400 + (IF mp < 10 THEN 0 ELSE 1),
   m |-> IF mp < 10 THEN mp + 3 ELSE mp - 9,
   d |-> doy - (153 * mp + 2) \div 5 + 1,
   h |-> h]
CivilOfDoy(era, yoe, doy, h) == CivilOfMonth(era, yoe, doy, (5 * doy + 2) \div 153, h)
CivilOfYoe(era, doe, yoe, h) ==
  CivilOfDoy(era, yoe, doe - (365 * yoe + yoe \div 4 - yoe \div 100), h)
CivilOfDoe(era, doe, h) ==
  CivilOfYoe(era, doe,
             (doe - doe \div 1460 + doe \div 36524 - doe \div 146096) \div 365, h)
CivilOfDay(z, h) == CivilOfDoe(z \div 146097, z % 146097, h)
Civil(t) == CivilOfDay(t \div 24 + 719468, t % 24)

Before(a, b) == a < b
After(a, b) == a > b

\* time.Weekday: 0 is Sunday, 1 is Monday.
Weekday(t) == (t \div 24 + 4) % 7
Monday == 1

\* for weekStart.Weekday() != time.Monday { weekStart = weekStart.AddDate(0, 0, -1) }
RECURSIVE WeekStart(_)
WeekStart(t) == IF Weekday(t) = Monday THEN t ELSE WeekStart(t - 24)

\* The four period functions handed to getAnchors, by granularity: the date
\* (year, month, day) of the midnight that time.Date(..., 0, 0, 0, 0, loc)
\* builds.
Granularities == {"daily", "weekly", "monthly", "yearly"}

PeriodOf(g, c, w) ==
  CASE g = "daily"   -> [y |-> c.y, m |-> c.m, d |-> c.d]
    [] g = "weekly"  -> [y |-> w.y, m |-> w.m, d |-> w.d]
    [] g = "monthly" -> [y |-> c.y, m |-> c.m, d |-> 1]
    [] g = "yearly"  -> [y |-> c.y, m |-> 1, d |-> 1]
PeriodStart(g, t) == PeriodOf(g, Civil(t), Civil(WeekStart(t)))

\* The instants that occur in file names.  2023-01-01 is a Sunday: the week
\* of Monday 2022-12-26 crosses the month and the year boundary, so the four
\* granularities group these instants in four different ways.
StampOf ==
  ( "20221231120000" :> Date(2022, 12, 31, 12)
 @@ "20230101000000" :> Date(2023, 1, 1, 0)
 @@ "20230101120000" :> Date(2023, 1, 1, 12)
 @@ "20230102000000" :> Date(2023, 1, 2, 0)
 @@ "20230201000000" :> Date(2023, 2, 1, 0) )

StampTokens == DOMAIN StampOf
Times == { StampOf[s] : s \in StampTokens }

\* periodStart.Format("2006-01-02"): the date, without the time of day
\* (tabulated over the instants of the model).
Format(p) == <<p.y, p.m, p.d>>
PeriodKeyOf == [g \in Granularities |-> [t \in Times |-> Format(PeriodStart(g, t))]]
PeriodKey(g, t) == PeriodKeyOf[g][t]

\* ------------------------------------------------------------ file names

\* The backup whose retention is computed, and two other backups that store
\* their archives in the same directory.
BackupName == <<"backup">>
OtherName == <<"other", "-", "backup">>
SiblingName == <<"backup", "-", "db">>

ExtGz == <<".", "gz">>
ExtZip == <<".", "zip">>
ExtTar == <<".", "tar">>
ExtTarGz == <<".", "tar", ".", "gz">>
ExtNone == <<>>

\* utils.GenerateFilename with the mask "%name%-%Y%m%d%H%M%S", followed by
\* the extension ExecuteBackup appends.
ArchiveName(name, stamp, ext) == name \o <<"-", stamp>> \o ext

\* strings.LastIndex(s, "."): 0 stands for Go's -1.
LastIndex(s, tok) ==
  IF \E i \in 1..Len(s) : s[i] = tok
  THEN CHOOSE i \in 1..Len(s) : s[i] = tok /\ \A j \in (i + 1)..Len(s) : s[j] # tok
  ELSE 0

\* strings.HasPrefix
HasPrefix(s, p) == Len(p) <= Len(s) /\ SubSeq(s, 1, Len(p)) = p

\* utils.ParseDateFromFilename: the timestamp embedded in the name, or an
\* error (ok = FALSE) when the name holds none.
ParseDateFromFilename(entryName) ==
  IF \E i \in 1..Len(entryName) : entryName[i] \in StampTokens
  THEN LET i == CHOOSE k \in 1..Len(entryName) :
                  /\ entryName[k] \in StampTokens
                  /\ \A j \in 1..(k - 1) : entryName[j] \notin StampTokens
       IN  [ok |-> TRUE, t |-> StampOf[entryName[i]]]
  ELSE [ok |-> FALSE, t |-> 0]

\* ------------------------------------------------------ retention/policy.go

\* IsBackupFile without the entry.IsDir() test.
IsBackupFileNoDirCheck(entry, backupName) ==
  LET entryName == entry.name
      idx       == LastIndex(entryName, ".")
      baseName  == IF idx # 0 THEN SubSeq(entryName, 1, idx - 1) ELSE entryName
  IN  /\ HasPrefix(baseName, backupName \o <<"-">>)
      /\ ParseDateFromFilename(entryName).ok

\* One iteration of the loop of getBackupFiles: does the entry become a
\* BackupFile?
IsBackupFile(entry, backupName) ==
  LET namePrefix == backupName \o <<"-">>
      entryName  == entry.name
      idx        == LastIndex(entryName, ".")
      baseName   == IF idx # 0 THEN SubSeq(entryName, 1, idx - 1) ELSE entryName
  IN  /\ ~entry.isDir
      /\ HasPrefix(baseName, namePrefix)
      /\ ParseDateFromFilename(entryName).ok

\* getBackupFiles, as the set of its BackupFile values.  The order of the
\* slice is that of os.ReadDir; determineFilesToKeep sorts it before use.
getBackupFiles(entries, backupName) ==
  { [Path |-> e.name, Time |-> ParseDateFromFilename(e.name).t] :
      e \in { x \in entries : IsBackupFile(x, backupName) } }

\* The results sort.Slice(files, Time.Before) can give: every arrangement in
\* which no file stands before a strictly earlier one.  sort.Slice is not
\* stable, so files of equal time may come out in any order.
RECURSIVE SortedSeqs(_)
SortedSeqs(files) ==
  IF files = {} THEN {<<>>}
  ELSE UNION { { <<f>> \o s : s \in SortedSeqs(files \ {f}) } :
               f \in { x \in files : \A z \in files : ~Before(z.Time, x.Time) } }

\* AnchorsStep with Before for After: the earliest file of a period is held.
AnchorsStepEarliest(anchors, file, periodKey) ==
  IF periodKey \notin DOMAIN anchors \/ Before(file.Time, anchors[periodKey].Time)
  THEN (periodKey :> file) @@ anchors
  ELSE anchors

\* The body of the loop of getAnchors: anchors maps a period key to the file
\* held for it.
AnchorsStep(anchors, file, periodKey) ==
  IF periodKey \notin DOMAIN anchors \/ After(file.Time, anchors[periodKey].Time)
  THEN (periodKey :> file) @@ anchors
  ELSE anchors

\* The loop of getAnchors from index i on.
RECURSIVE AnchorsLoop(_, _, _, _)
AnchorsLoop(files, g, i, anchors) ==
  IF i > Len(files) THEN anchors
  ELSE AnchorsLoop(files, g, i + 1,
                   AnchorsStep(anchors, files[i], PeriodKey(g, files[i].Time)))

Values(f) == { f[k] : k \in DOMAIN f }

\* getAnchors: the values of the map (Go ranges over it in no fixed order;
\* getLastN sorts the result).
getAnchors(files, g) == Values(AnchorsLoop(files, g, 1, <<>>))

\* LastOf with files[:n]: the first n of the sorted slice.
LastOfFirst(s, n) ==
  IF Len(s) <= n THEN Values(s) ELSE { s[i] : i \in 1..n }

\* LastOf with files[len(files)-n+1:] and len(files) < n: one too few.
LastOfShort(s, n) ==
  IF Len(s) < n THEN Values(s) ELSE { s[i] : i \in (Len(s) - n + 2)..Len(s) }

\* LastOf with files[len(files)-n-1:]: one too many.
LastOfLong(s, n) ==
  IF Len(s) <= n + 1 THEN Values(s) ELSE { s[i] : i \in (Len(s) - n)..Len(s) }

\* files[len(files)-n:] of the sorted slice, or all of it.
LastOf(s, n) ==
  IF Len(s) <= n THEN Values(s) ELSE { s[i] : i \in (Len(s) - n + 1)..Len(s) }

\* getLastN: sort ascending by time, keep the last n.
getLastN(files, n) ==
  IF n <= 0 THEN {} ELSE LastOf(CHOOSE q \in SortedSeqs(files) : TRUE, n)

\* determineFilesToKeep on the slice as sort.Slice left it.  The result is
\* deduplicated by Path; a set of BackupFile is that already, since a path
\* has one time.
determineFilesToKeep(files, policy) ==
  IF Len(files) = 0 THEN {}
  ELSE getLastN(getAnchors(files, "daily"), policy.Daily)
         \cup getLastN(getAnchors(files, "weekly"), policy.Weekly)
         \cup getLastN(getAnchors(files, "monthly"), policy.Monthly)
         \cup getLastN(getAnchors(files, "yearly"), policy.Yearly)

\* ShouldKeep with the test inverted.
ShouldKeepInverted(file, toKeep) == \A keepFile \in toKeep : keepFile.Path # file.Path

\* The test of the deletion loop of ApplyRetention: is file among toKeep?
ShouldKeep(file, toKeep) == \E keepFile \in toKeep : keepFile.Path = file.Path

\* What one call of ApplyRetention is observed to do.
NoRun ==
  [ran |-> FALSE, err |-> FALSE, before |-> {}, files |-> {}, keep |-> {},
   attempted |-> {}, failed |-> {}, after |-> {}]

Paths(files) == { f.Path : f \in files }

\* RemoveLoop that returns the error of the first os.Remove that fails: no
\* other file is removed.
RemoveLoopAbort(entries, files, toKeep, toRemove, failing) ==
  [ran       |-> TRUE,
   err       |-> failing # {},
   before    |-> entries,
   files     |-> files,
   keep      |-> toKeep,
   attempted |-> IF failing # {} THEN Paths(failing) ELSE Paths(toRemove),
   failed    |-> Paths(failing),
   after     |-> IF failing # {} THEN entries
                 ELSE { e \in entries : e.name \notin Paths(toRemove) }]

\* The deletion loop of ApplyRetention: os.Remove is called on toRemove and
\* fails on failing.
RemoveLoop(entries, files, toKeep, toRemove, failing) ==
  [ran       |-> TRUE,
   err       |-> FALSE,
   before    |-> entries,
   files     |-> files,
   keep      |-> toKeep,
   attempted |-> Paths(toRemove),
   failed    |-> Paths(failing),
   after     |-> { e \in entries : e.name \notin Paths(toRemove \ failing) }]

RemoveOthers(entries, files, toKeep, toRemove) ==
  { RemoveLoop(entries, files, toKeep, toRemove, failing) :
      failing \in { x \in SUBSET toRemove : Cardinality(x) <= MaxFaults } }

\* ApplyRetention from determineFilesToKeep on, for each order sort.Slice
\* can leave the files in.
RetainAmong(entries, files, policy) ==
  UNION { LET toKeep == determineFilesToKeep(sorted, policy)
          IN  RemoveOthers(entries, files, toKeep,
                           { f \in files : ~ShouldKeep(f, toKeep) })
          : sorted \in SortedSeqs(files) }

Untouched(entries, failed) ==
  [NoRun EXCEPT !.err = failed, !.before = entries, !.after = entries]

ListedFiles(entries, files, policy) ==
  IF files = {} THEN { Untouched(entries, FALSE) }
  ELSE RetainAmong(entries, files, policy)

\* ApplyRetention(backupDir, subdirectory, backupName, policy) on a
\* directory holding entries: every result the call can have.  os.ReadDir
\* may fail, and then the call returns an error.
ApplyRetention(exists, entries, backupName, policy) ==
  IF ~exists THEN { Untouched(entries, FALSE) }
  ELSE { Untouched(entries, TRUE) }
         \cup ListedFiles(entries, getBackupFiles(entries, backupName), policy)

\* ------------------------------------------------------------ compression

\* What a Compress call leaves behind: the error it returns (err) and the
\* files it has created in the destination directory and not removed (made).
Outcome(failed, made) == [err |-> failed, made |-> made]

\* GzipCompressor.Compress: os.Open or os.Create fails (nothing is made),
\* io.Copy fails (the destination file exists already), or all succeed.
\* io.Copy from a directory always fails.
GzipCompress(sourceIsDir, destination) ==
  { Outcome(TRUE, {}), Outcome(TRUE, {destination}) }
    \cup IF sourceIsDir THEN {} ELSE { Outcome(FALSE, {destination}) }

\* ZipCompressor.Compress: os.Create fails, or os.Stat, the walk or
\* addFileToZip fail once the destination is created, or all succeed.
ZipCompress(sourceIsDir, destination) ==
  { Outcome(TRUE, {}), Outcome(TRUE, {destination}), Outcome(FALSE, {destination}) }

\* TarCompressor.Compress: os.Create fails, or os.Stat, the walk or
\* addFileToTar fail once the destination is created, or all succeed.
TarCompress(sourceIsDir, destination) ==
  { Outcome(TRUE, {}), Outcome(TRUE, {destination}), Outcome(FALSE, {destination}) }

\* tmpTar := destination + ".tmp.tar"
TmpTar(destination) == destination \o <<".", "tmp", ".", "tar">>

\* TarGzCompressor.Compress after the tar step has succeeded: os.Open or
\* os.Create fails, io.Copy fails, or all succeed; the deferred
\* os.Remove(tmpTar) runs on each of these paths.
GzipStep(tarMade, destination, tmpTar) ==
  { Outcome(TRUE, tarMade \ {tmpTar}),
    Outcome(TRUE, (tarMade \cup {destination}) \ {tmpTar}),
    Outcome(FALSE, (tarMade \cup {destination}) \ {tmpTar}) }

\* TarGzCompressor.Compress: when the tar step fails, its error is returned
\* before os.Remove(tmpTar) is deferred.
TarGzCompress(sourceIsDir, destination) ==
  UNION { IF t.err THEN { t } ELSE GzipStep(t.made, destination, TmpTar(destination)) :
            t \in TarCompress(sourceIsDir, TmpTar(destination)) }

\* NoCompressor.Compress: as GzipCompressor, without the gzip writer.
NoCompress(sourceIsDir, destination) ==
  { Outcome(TRUE, {}), Outcome(TRUE, {destination}) }
    \cup IF sourceIsDir THEN {} ELSE { Outcome(FALSE, {destination}) }

\* The compression identifiers of the model.
Compressions == {"gzip", "GZIP", "zip", "tar", "tar.gz", "none", "", "rar"}

\* strings.ToLower
ToLower(compressionType) == IF compressionType = "GZIP" THEN "gzip" ELSE compressionType

\* NewCompressor: the compressor, or "error" for an unsupported type.
NewCompressor(compressionType) ==
  CASE ToLower(compressionType) = "gzip" -> "GzipCompressor"
    [] ToLower(compressionType) = "zip" -> "ZipCompressor"
    [] ToLower(compressionType) = "tar" -> "TarCompressor"
    [] ToLower(compressionType) = "tar.gz" -> "TarGzCompressor"
    [] ToLower(compressionType) \in {"none", ""} -> "NoCompressor"
    [] OTHER -> "error"

\* compressor.Compress(sourcePath, destinationPath)
Compress(compressor, sourceIsDir, destination) ==
  CASE compressor = "GzipCompressor" -> GzipCompress(sourceIsDir, destination)
    [] compressor = "ZipCompressor" -> ZipCompress(sourceIsDir, destination)
    [] compressor = "TarCompressor" -> TarCompress(sourceIsDir, destination)
    [] compressor = "TarGzCompressor" -> TarGzCompress(sourceIsDir, destination)
    [] compressor = "NoCompressor" -> NoCompress(sourceIsDir, destination)

\* utils.GetExtension: the canonical extension of a compression type, empty
\* for no compression.
GetExtension(compressionType) ==
  CASE compressionType = "gzip" -> ExtGz
    [] compressionType = "zip" -> ExtZip
    [] compressionType = "tar" -> ExtTar
    [] compressionType = "tar.gz" -> ExtTarGz
    [] OTHER -> ExtNone

\* The timestamp utils.GenerateFilename writes for an instant.
StampToken(t) == CHOOSE s \in StampTokens : StampOf[s] = t

\* ---------------------------------------------------------- configuration

ZeroPolicy == [Daily |-> 0, Weekly |-> 0, Monthly |-> 0, Yearly |-> 0]

\* config.BackupConfig.  SourceDir and Command are empty or not; PreHooks
\* and PostHooks are command lists; Retention is <<>> for nil.
BackupConfig(name, sourceDir, command, compression, preHooks, postHooks, retention) ==
  [Name |-> name, SourceDir |-> sourceDir, Command |-> command,
   Compression |-> compression, PreHooks |-> preHooks, PostHooks |-> postHooks,
   Retention |-> retention]

\* The backup configurations of the model: a directory and a command as
\* source, and none; the compressors, the default and an unsupported type;
\* with and without hooks; with and without a retention policy of its own.
BackupConfigs ==
  << BackupConfig(BackupName, "/data", "", "tar.gz", <<"stop">>, <<"start">>, <<>>),
     BackupConfig(SiblingName, "", "pg_dump", "", <<>>, <<"notify">>, <<>>),
     BackupConfig(BackupName, "/data", "", "rar", <<"stop">>, <<>>, <<>>),
     BackupConfig(BackupName, "", "", "gzip", <<"stop">>, <<"start">>, <<>>),
     BackupConfig(BackupName, "/data", "pg_dump", "zip", <<>>, <<>>, <<ZeroPolicy>>),
     BackupConfig(BackupName, "", "pg_dump", "tar", <<"stop">>, <<"start">>, <<>>) >>

\* cfg.Backups: n consecutive configurations, from the k-th on.
Backups(k, n) ==
  [j \in 1..n |-> BackupConfigs[((k + j - 2) % Len(BackupConfigs)) + 1]]

\* config.GlobalConfig, but for its retention policy.
GlobalHooks ==
  [PreHooks |-> <<"mount">>, PostHooks |-> <<"umount">>, DefaultCompression |-> "gzip"]
NoGlobalHooks ==
  [PreHooks |-> <<>>, PostHooks |-> <<>>, DefaultCompression |-> "gzip"]

Configs ==
  { [Global |-> g, Backups |-> Backups(k, n)] :
      g \in {GlobalHooks, NoGlobalHooks}, k \in 1..Len(BackupConfigs), n \in 1..MaxBackups }

\* ------------------------------------------------------------------ state

VARIABLES
  dirExists,     \* does the destination directory exist
  dir,           \* its entries: [name, isDir]
  policy,        \* cfg.Global.Retention
  runs,          \* direct ApplyRetention calls made so far (RunRetention, RunRetentionAgain)
  last,          \* what the latest ApplyRetention call did
  prev,          \* what the call before it did
  cfg,           \* the loaded configuration: [Global, Backups]
  pc,            \* the statement main or ExecuteBackup is at
  i,             \* main's loop index: backups[i] is being processed
  stages,        \* the stages run since the latest ExecuteBackup began: [stage, ok]
  tmpDir,        \* does the temporary directory of ExecuteBackup exist
  now,           \* the latest value of time.Now()
  err,           \* what the latest ExecuteBackup returned ("running" until then)
  results,       \* what the ExecuteBackup calls returned, in order
  successCount,
  errorCount,
  exitCode,      \* the exit status of the process (-1: still running)
  attempted      \* the indexes ExecuteBackup was called for, in order

retentionVars == <<dirExists, dir, policy, runs, last, prev>>
pipelineVars ==
  <<cfg, pc, i, stages, tmpDir, now, err, results, successCount, errorCount, exitCode,
    attempted>>
vars == <<retentionVars, pipelineVars>>

Policies ==
  [Daily : 0..MaxCount, Weekly : 0..MaxCount,
   Monthly : 0..MaxLongCount, Yearly : 0..MaxLongCount]

File(name) == [name |-> name, isDir |-> FALSE]
Directory(name) == [name |-> name, isDir |-> TRUE]

\* Archives of the backup: one .gz per instant, and a .zip written at the
\* same instant as one of them.
ManagedFiles ==
  { File(ArchiveName(BackupName, s, ExtGz)) : s \in StampTokens }
    \cup { File(ArchiveName(BackupName, "20230101120000", ExtZip)) }

\* What else the directory may hold: archives of two other backups, a file
\* with the prefix and no timestamp, and a subdirectory.
ForeignFiles ==
  { File(ArchiveName(OtherName, "20230101000000", ExtGz)),
    File(ArchiveName(SiblingName, "20221231120000", ExtGz)),
    File(<<"backup", "-", "notes", ".", "txt">>),
    Directory(ArchiveName(BackupName, "20221231120000", ExtNone)) }

\* ------------------------------------------------- retention, run by run

RetentionInit ==
  /\ dirExists \in BOOLEAN
  /\ dir \in IF dirExists
             THEN { m \cup f : m \in { x \in SUBSET ManagedFiles : Cardinality(x) <= MaxFiles },
                               f \in {{}, ForeignFiles} }
             ELSE {{}}
  /\ policy \in Policies
  /\ runs = 0
  /\ last = NoRun
  /\ prev = NoRun
  /\ cfg = [Global |-> NoGlobalHooks, Backups |-> <<>>]
  /\ pc = "retention"
  /\ i = 0
  /\ stages = <<>>
  /\ tmpDir = FALSE
  /\ now = 0
  /\ err = "running"
  /\ results = <<>>
  /\ successCount = 0
  /\ errorCount = 0
  /\ exitCode = -1
  /\ attempted = <<>>

\* retention.ApplyRetention(backupDir, subdirectory, "backup", policy)
RetentionCall ==
  /\ \E o \in ApplyRetention(dirExists, dir, BackupName, policy) :
       /\ dir' = o.after
       /\ last' = o
  /\ prev' = last
  /\ runs' = runs + 1
  /\ UNCHANGED <<dirExists, policy, pipelineVars>>

\* The first call.
RunRetention == runs = 0 /\ RetentionCall

\* A second call right after the first: nothing is written in between.
RunRetentionAgain == runs = 1 /\ RetentionCall

RetentionNext == RunRetention

SpecRetention == RetentionInit /\ [][RetentionNext]_vars

RetentionTwiceNext == RunRetention \/ RunRetentionAgain

SpecRetentionTwice == RetentionInit /\ [][RetentionTwiceNext]_vars

\* ------------------------------------------------- main and ExecuteBackup

\* The two ways a stage of ExecuteBackup ends: return fmt.Errorf(message),
\* or go on to the statement at to.
Abort(message) == [pc |-> "returned", err |-> message]
Proceed(to) == [pc |-> to, err |-> "running"]

\* AfterCapture with the error of the capture printed as a warning.
AfterCaptureWarnOnly(failure) == Proceed("filename")

\* if err := CopyDirectory(...) / ExecuteCommand(...) / copyFileToTemp(...);
\* err != nil { return ... }; failure is "" when the capture succeeded.
AfterCapture(failure) == IF failure # "" THEN Abort(failure) ELSE Proceed("filename")

\* if err := compressor.Compress(...); err != nil { return ... }
AfterCompress(failed) ==
  IF failed THEN Abort("failed to compress") ELSE Proceed("retention")

\* AfterRetention with the error of ApplyRetention returned.
AfterRetentionFatal(failed) ==
  IF failed THEN Abort("retention policy failed") ELSE Proceed("post_hooks")

\* if err := retention.ApplyRetention(...); err != nil { fmt.Printf("Warning...") }
AfterRetention(failed) == Proceed("post_hooks")

\* if err := hooks.RunHooks(...); err != nil { fmt.Printf("Warning...") }
AfterPreHooks(failed) == Proceed("temp_dir")
AfterPostHooks(failed) == Proceed("return")

Stage(stage, ok) == [stage |-> stage, ok |-> ok]

\* A stage of ExecuteBackup has run with result ok and ends as step says;
\* the deferred os.RemoveAll(tmpDir) runs when ExecuteBackup returns.
Ran(stage, ok, step) ==
  /\ stages' = Append(stages, Stage(stage, ok))
  /\ pc' = step.pc
  /\ err' = step.err
  /\ tmpDir' = IF step.pc = "returned" THEN FALSE ELSE tmpDir

backupConfig == cfg.Backups[i]

\* compressionType, after the default is applied.
compressionType ==
  IF backupConfig.Compression = "" THEN cfg.Global.DefaultCompression
  ELSE backupConfig.Compression

\* filename: the mask expanded at now, and the extension.
filename ==
  ArchiveName(backupConfig.Name, StampToken(now), GetExtension(compressionType))

\* retentionPolicy: that of the backup when it has one.
retentionPolicy ==
  IF backupConfig.Retention # <<>> THEN backupConfig.Retention[1] ELSE policy

\* The values time.Now() can return after it returned t: t again, or the
\* next instant of the model.
Clock(t) == { u \in Times : u >= t /\ \A v \in Times : v > t => u <= v }

\* A policy that keeps one archive, and the largest one of the model.
PipelinePolicies ==
  { [Daily |-> 1, Weekly |-> 0, Monthly |-> 0, Yearly |-> 0],
    [Daily |-> MaxCount, Weekly |-> MaxCount,
     Monthly |-> MaxLongCount, Yearly |-> MaxLongCount] }

\* The state when main has loaded the configuration: the destination
\* directory is missing or holds an archive of an earlier invocation.
PipelineInit ==
  /\ cfg \in Configs
  /\ policy \in PipelinePolicies
  /\ dirExists \in BOOLEAN
  /\ dir = IF dirExists
           THEN { File(ArchiveName(BackupName, "20221231120000", ExtGz)) }
           ELSE {}
  /\ runs = 0
  /\ last = NoRun
  /\ prev = NoRun
  /\ pc = "global_pre_hooks"
  /\ i = 0
  /\ stages = <<>>
  /\ tmpDir = FALSE
  /\ now = StampOf["20230101000000"]
  /\ err = "running"
  /\ results = <<>>
  /\ successCount = 0
  /\ errorCount = 0
  /\ exitCode = -1
  /\ attempted = <<>>

\* main: the global pre-hooks.
GlobalPreHooks ==
  /\ pc = "global_pre_hooks"
  /\ IF Len(cfg.Global.PreHooks) > 0
     THEN \E ok \in BOOLEAN : stages' = Append(stages, Stage("global_pre_hooks", ok))
     ELSE UNCHANGED stages
  /\ pc' = "loop"
  /\ UNCHANGED <<retentionVars, cfg, i, tmpDir, now, err, results,
                 successCount, errorCount, exitCode, attempted>>

\* main: the loop takes the next backup and calls ExecuteBackup.
CallExecuteBackup ==
  /\ pc = "loop"
  /\ i < Len(cfg.Backups)
  /\ i' = i + 1
  /\ attempted' = Append(attempted, i + 1)
  /\ pc' = "pre_hooks"
  /\ stages' = <<>>
  /\ err' = "running"
  /\ last' = NoRun
  /\ UNCHANGED <<dirExists, dir, policy, runs, prev, cfg, tmpDir, now, results,
                 successCount, errorCount, exitCode>>

\* ExecuteBackup: the pre-hooks of the backup.
PreHooks ==
  /\ pc = "pre_hooks"
  /\ IF Len(backupConfig.PreHooks) > 0
     THEN \E ok \in BOOLEAN : Ran("pre_hooks", ok, AfterPreHooks(~ok))
     ELSE pc' = "temp_dir" /\ UNCHANGED <<stages, err, tmpDir>>
  /\ UNCHANGED <<retentionVars, cfg, i, now, results, successCount, errorCount, exitCode, attempted>>

\* ExecuteBackup: os.MkdirTemp.
MkdirTemp ==
  /\ pc = "temp_dir"
  /\ \/ /\ tmpDir' = TRUE
        /\ pc' = "capture"
        /\ UNCHANGED <<stages, err>>
     \/ Ran("temp_dir", FALSE, Abort("failed to create temp directory"))
  /\ UNCHANGED <<retentionVars, cfg, i, now, results, successCount, errorCount, exitCode, attempted>>

\* What the capture can end with: "" for success, or the error returned.
CaptureFailures ==
  IF backupConfig.SourceDir # "" THEN { "", "failed to copy directory" }
  ELSE IF backupConfig.Command # ""
       THEN { "", "failed to execute command", "failed to copy output file" }
       ELSE { "invalid backup configuration" }

\* ExecuteBackup: CopyDirectory, or ExecuteCommand and copyFileToTemp.
Capture ==
  /\ pc = "capture"
  /\ \E failure \in CaptureFailures : Ran("capture", failure = "", AfterCapture(failure))
  /\ UNCHANGED <<retentionVars, cfg, i, now, results, successCount, errorCount, exitCode, attempted>>

\* ExecuteBackup: now := time.Now(), and the file name.
Filename ==
  /\ pc = "filename"
  /\ now' \in Clock(now)
  /\ pc' = "mkdir_all"
  /\ UNCHANGED <<retentionVars, cfg, i, stages, tmpDir, err, results,
                 successCount, errorCount, exitCode, attempted>>

\* ExecuteBackup: os.MkdirAll(backupSubDir).
MkdirAll ==
  /\ pc = "mkdir_all"
  /\ \/ /\ dirExists' = TRUE
        /\ Ran("mkdir_all", TRUE, Proceed("new_compressor"))
     \/ /\ UNCHANGED dirExists
        /\ Ran("mkdir_all", FALSE, Abort("failed to create backup directory"))
  /\ UNCHANGED <<dir, policy, runs, last, prev, cfg, i, now, results,
                 successCount, errorCount, exitCode, attempted>>

\* ExecuteBackup: compression.NewCompressor(compressionType).
SelectCompressor ==
  /\ pc = "new_compressor"
  /\ IF NewCompressor(compressionType) = "error"
     THEN Ran("new_compressor", FALSE, Abort("failed to create compressor"))
     ELSE pc' = "compress" /\ UNCHANGED <<stages, err, tmpDir>>
  /\ UNCHANGED <<retentionVars, cfg, i, now, results, successCount, errorCount, exitCode, attempted>>

\* ExecuteBackup: compressor.Compress(sourcePath, destinationPath);
\* sourcePath is tmpDir when SourceDir is set, a file in it otherwise.
CompressArchive ==
  /\ pc = "compress"
  /\ \E o \in Compress(NewCompressor(compressionType), backupConfig.SourceDir # "", filename) :
       /\ dir' = dir \cup { File(n) : n \in o.made }
       /\ Ran("compress", ~o.err, AfterCompress(o.err))
  /\ UNCHANGED <<dirExists, policy, runs, last, prev, cfg, i, now, results,
                 successCount, errorCount, exitCode, attempted>>

\* ExecuteBackup: retention.ApplyRetention.
Retention ==
  /\ pc = "retention"
  /\ i > 0
  /\ \E o \in ApplyRetention(dirExists, dir, backupConfig.Name, retentionPolicy) :
       /\ dir' = o.after
       /\ last' = o
       /\ Ran("retention", ~o.err, AfterRetention(o.err))
  /\ UNCHANGED <<dirExists, policy, runs, prev, cfg, i, now, results,
                 successCount, errorCount, exitCode, attempted>>

\* ExecuteBackup: the post-hooks of the backup.
PostHooks ==
  /\ pc = "post_hooks"
  /\ IF Len(backupConfig.PostHooks) > 0
     THEN \E ok \in BOOLEAN : Ran("post_hooks", ok, AfterPostHooks(~ok))
     ELSE pc' = "return" /\ UNCHANGED <<stages, err, tmpDir>>
  /\ UNCHANGED <<retentionVars, cfg, i, now, results, successCount, errorCount, exitCode, attempted>>

\* ExecuteBackup: return nil.
Return ==
  /\ pc = "return"
  /\ pc' = "returned"
  /\ err' = "nil"
  /\ tmpDir' = FALSE
  /\ UNCHANGED <<retentionVars, cfg, i, stages, now, results,
                 successCount, errorCount, exitCode, attempted>>

\* Count with break for continue: an error ends the loop.
CountAndBreak ==
  /\ pc = "returned"
  /\ IF err # "nil"
     THEN errorCount' = errorCount + 1 /\ i' = Len(cfg.Backups) /\ UNCHANGED successCount
     ELSE successCount' = successCount + 1 /\ UNCHANGED <<errorCount, i>>
  /\ results' = Append(results, err)
  /\ pc' = "loop"
  /\ UNCHANGED <<retentionVars, cfg, stages, tmpDir, now, err, exitCode, attempted>>

\* main: the result of ExecuteBackup is counted.
Count ==
  /\ pc = "returned"
  /\ IF err # "nil"
     THEN errorCount' = errorCount + 1 /\ UNCHANGED successCount
     ELSE successCount' = successCount + 1 /\ UNCHANGED errorCount
  /\ results' = Append(results, err)
  /\ pc' = "loop"
  /\ UNCHANGED <<retentionVars, cfg, i, stages, tmpDir, now, err, exitCode, attempted>>

\* main: the loop is over; the global post-hooks.
GlobalPostHooks ==
  /\ pc = "loop"
  /\ i >= Len(cfg.Backups)
  /\ IF Len(cfg.Global.PostHooks) > 0
     THEN \E ok \in BOOLEAN : stages' = Append(stages, Stage("global_post_hooks", ok))
     ELSE UNCHANGED stages
  /\ pc' = "summary"
  /\ UNCHANGED <<retentionVars, cfg, i, tmpDir, now, err, results,
                 successCount, errorCount, exitCode, attempted>>

\* main: the summary, and os.Exit(1) when a backup has failed.
Exit ==
  /\ pc = "summary"
  /\ exitCode' = IF errorCount > 0 THEN 1 ELSE 0
  /\ pc' = "exit"
  /\ UNCHANGED <<retentionVars, cfg, i, stages, tmpDir, now, err, results,
                 successCount, errorCount, attempted>>

PipelineNext ==
  \/ GlobalPreHooks \/ CallExecuteBackup
  \/ PreHooks \/ MkdirTemp \/ Capture \/ Filename \/ MkdirAll
  \/ SelectCompressor \/ CompressArchive \/ Retention \/ PostHooks \/ Return
  \/ Count \/ GlobalPostHooks \/ Exit

SpecPipeline == PipelineInit /\ [][PipelineNext]_vars

\* ================================================================ claims

PolicySum(p) == p.Daily + p.Weekly + p.Monthly + p.Yearly
PolicyCount(p, g) ==
  CASE g = "daily" -> p.Daily [] g = "weekly" -> p.Weekly
    [] g = "monthly" -> p.Monthly [] g = "yearly" -> p.Yearly

\* No two of the files fall in the same period of granularity g.
DistinctPeriods(files, g) ==
  \A a, b \in files : a # b => PeriodKey(g, a.Time) # PeriodKey(g, b.Time)

\* C1 as stated: whenever ApplyRetention finds fewer candidates than
\* daily+weekly+monthly+yearly, it keeps them all and removes nothing.
C1_FewerThanSumKeepsAll ==
  (last.ran /\ Cardinality(last.files) < PolicySum(policy))
    => (last.keep = last.files /\ last.attempted = {})

\* C1 amended: whenever, for some granularity, the candidates fall in
\* pairwise distinct periods and are no more than that granularity's count,
\* ApplyRetention keeps them all and removes nothing.
C1_DistinctPeriodsKeepsAll ==
  (last.ran /\ \E g \in Granularities :
       /\ DistinctPeriods(last.files, g)
       /\ Cardinality(last.files) <= PolicyCount(policy, g))
    => (last.keep = last.files /\ last.attempted = {} /\ last.after = last.before)

C1_Witness ==
  /\ last.ran
  /\ Cardinality(last.files) >= 2
  /\ \E g \in Granularities :
       /\ DistinctPeriods(last.files, g)
       /\ Cardinality(last.files) = PolicyCount(policy, g)
  /\ last.keep = last.files

\* C2: the keep-set has at most daily+weekly+monthly+yearly elements, and at
\* least one when there is a candidate and some count is positive.
C2_KeepSetSize ==
  last.ran =>
    /\ Cardinality(last.keep) <= PolicySum(policy)
    /\ (last.files # {} /\ PolicySum(policy) > 0) => Cardinality(last.keep) >= 1

C2_Witness ==
  /\ last.ran
  /\ PolicySum(policy) >= 2
  /\ Cardinality(last.keep) = PolicySum(policy)
  /\ Cardinality(last.files) > Cardinality(last.keep)

ArchivesOf(name) ==
  { ArchiveName(name, s, x) : s \in StampTokens, x \in {ExtGz, ExtZip, ExtTar, ExtTarGz, ExtNone} }

Removed(o) == { e.name : e \in o.before \ o.after }

\* C4 as stated: when ApplyRetention runs for "backup", no archive of another
\* backup of the same directory ("other-backup", "backup-db") is a candidate
\* or is removed.
C4_PrefixIsolation ==
  \A n \in ArchivesOf(OtherName) \cup ArchivesOf(SiblingName) :
    /\ n \notin { f.Path : f \in last.files }
    /\ n \notin Removed(last)

\* The three kinds of entry that C5 says are never removed.
NotRecognized(e) ==
  \/ e.isDir
  \/ ~HasPrefix(IF LastIndex(e.name, ".") # 0
                THEN SubSeq(e.name, 1, LastIndex(e.name, ".") - 1)
                ELSE e.name,
                BackupName \o <<"-">>)
  \/ ~ParseDateFromFilename(e.name).ok

\* C5 as stated: what ApplyRetention removes is a subset of the candidates;
\* directories, files without the "backup-" prefix and files without a
\* timestamp are never removed; under the all-zero policy every candidate
\* is removed.
C5_OnlyCandidatesAllAtZero ==
  /\ Removed(last) \subseteq { f.Path : f \in last.files }
  /\ \A e \in last.before : NotRecognized(e) => e \in last.after
  /\ (last.ran /\ policy = ZeroPolicy)
       => \A f \in last.files : \A e \in last.after : e.name # f.Path

\* C5 amended: as stated, except that under the all-zero policy os.Remove is
\* called on every candidate, and exactly the candidates on which it fails
\* are still there afterwards.
C5_OnlyCandidatesAllAttemptedAtZero ==
  /\ Removed(last) \subseteq { f.Path : f \in last.files }
  /\ \A e \in last.before : NotRecognized(e) => e \in last.after
  /\ (last.ran /\ policy = ZeroPolicy)
       => /\ last.attempted = { f.Path : f \in last.files }
          /\ \A f \in last.files :
               (\E e \in last.after : e.name = f.Path) <=> f.Path \in last.failed

C5_Witness ==
  /\ last.ran /\ policy = ZeroPolicy
  /\ ForeignFiles \subseteq last.before
  /\ Cardinality(Removed(last)) >= 3
  /\ last.failed = {}
  /\ \E e \in last.after : e.isDir
  /\ \E e \in last.after : ~e.isDir /\ ~ParseDateFromFilename(e.name).ok

\* The day on which the period of t starts, as a day number.
PeriodDayOf ==
  [g \in Granularities |->
     [t \in Times |-> LET k == PeriodKey(g, t) IN DayNumber(k[1], k[2], k[3])]]
PeriodDay(g, t) == PeriodDayOf[g][t]

\* The files of maximal time within their period of granularity g, for the
\* n most recent periods of g that hold a file; recency is that of the
\* period's start.
LatestOfRecentPeriods(files, g, n) ==
  { f \in files :
      /\ \A x \in files :
           PeriodDay(g, x.Time) = PeriodDay(g, f.Time) => x.Time <= f.Time
      /\ Cardinality({ PeriodDay(g, z.Time) :
                         z \in { x \in files : PeriodDay(g, x.Time) > PeriodDay(g, f.Time) } })
           < n }

ExampleFiles ==
  { [Path |-> ArchiveName(BackupName, s, ExtGz), Time |-> StampOf[s]] :
      s \in {"20230101000000", "20230101120000", "20230102000000"} }

\* C6: the keep-set is the union over the four granularities of the latest
\* candidate of each of the N most recent periods that hold a candidate, N
\* the granularity's count: every kept file is such a latest candidate, each
\* such period has one of its latest candidates kept, and two candidates of
\* the same instant are never both kept.  With archives at 01-01T00:00,
\* 01-01T12:00, 01-02T00:00 and daily=2 alone, the last two are kept.
C6_KeepSetIsLatestPerPeriod ==
  last.ran =>
    LET sel == [g \in Granularities |->
                  LatestOfRecentPeriods(last.files, g, PolicyCount(policy, g))]
    IN  /\ last.keep \subseteq UNION { sel[g] : g \in Granularities }
        /\ \A g \in Granularities : \A f \in sel[g] :
              \E k \in last.keep :
                PeriodKey(g, k.Time) = PeriodKey(g, f.Time) /\ k.Time = f.Time
        /\ \A a, b \in last.keep : a.Time = b.Time => a = b
        /\ (last.files = ExampleFiles
              /\ policy = [Daily |-> 2, Weekly |-> 0, Monthly |-> 0, Yearly |-> 0])
             => last.keep = { f \in ExampleFiles : f.Time # StampOf["20230101000000"] }

C6_Witness ==
  /\ last.ran
  /\ last.files = ExampleFiles
  /\ policy = [Daily |-> 2, Weekly |-> 0, Monthly |-> 0, Yearly |-> 0]
  /\ Cardinality(last.keep) = 2
  /\ Removed(last) = { ArchiveName(BackupName, "20230101000000", ExtGz) }

\* ---------------------------------------------------- claims on the pipeline

HasStage(stage) == \E k \in DOMAIN stages : stages[k].stage = stage
Succeeded(stage) == \E k \in DOMAIN stages : stages[k].stage = stage /\ stages[k].ok
Failed(stage) == \E k \in DOMAIN stages : stages[k].stage = stage /\ ~stages[k].ok

\* The errors ExecuteBackup returns when the capture or the compression fails.
CaptureOrCompressErrors ==
  { "failed to copy directory", "failed to execute command",
    "failed to copy output file", "invalid backup configuration",
    "failed to compress" }

\* C7: once the capture or the compression of a backup has failed,
\* ExecuteBackup has returned an error (the failed stage is the last one it
\* ran) and neither ApplyRetention nor the post-hooks of that backup have
\* run; and when main exits, ExecuteBackup has been called for, and has
\* returned from, every configured backup.
C7_CaptureOrCompressFailureAborts ==
  /\ (Failed("capture") \/ Failed("compress")) =>
       /\ pc \in {"returned", "loop", "summary", "exit"}
       /\ err \in CaptureOrCompressErrors
       /\ ~HasStage("retention") /\ ~HasStage("post_hooks")
       /\ last = NoRun
       /\ \A k \in DOMAIN stages :
            stages[k].stage \in {"capture", "compress"} /\ ~stages[k].ok
              => \A j \in (k + 1)..Len(stages) : stages[j].stage = "global_post_hooks"
  /\ pc = "exit" => (i = Len(cfg.Backups) /\ Len(results) = Len(cfg.Backups))

C7_Witness ==
  /\ pc = "exit"
  /\ Len(results) >= 2
  /\ results[1] \in CaptureOrCompressErrors
  /\ results[2] = "nil"
  /\ Succeeded("capture") /\ Succeeded("compress") /\ HasStage("retention")

\* The place of a stage in ExecuteBackup.
StageOrder ==
  <<"pre_hooks", "temp_dir", "capture", "mkdir_all", "new_compressor",
    "compress", "retention", "post_hooks">>
Rank(stage) == CHOOSE k \in DOMAIN StageOrder : StageOrder[k] = stage

\* C8: when ExecuteBackup has returned, the stages it ran were run in the
\* order of the pipeline; configured pre-hooks were followed by the next
\* stage whatever their outcome; after a successful compression
\* ApplyRetention and the configured post-hooks were run, whatever the
\* outcome of ApplyRetention; and nil was returned exactly when the capture
\* and the compression succeeded.
C8_HooksAndRetentionNeverFatal ==
  pc = "returned" =>
    /\ \A j, k \in DOMAIN stages : j < k => Rank(stages[j].stage) < Rank(stages[k].stage)
    /\ Len(backupConfig.PreHooks) > 0
         => (stages[1].stage = "pre_hooks" /\ Len(stages) >= 2)
    /\ Succeeded("compress")
         => /\ HasStage("retention")
            /\ Len(backupConfig.PostHooks) > 0
                 => stages[Len(stages)].stage = "post_hooks"
    /\ (err = "nil") <=> (Succeeded("capture") /\ Succeeded("compress"))

C8_Witness ==
  /\ pc = "returned"
  /\ Failed("pre_hooks") /\ Failed("retention") /\ Failed("post_hooks")
  /\ Succeeded("capture") /\ Succeeded("compress")
  /\ err = "nil"

\* C9 as stated: when ExecuteBackup has failed with an unsupported
\* compression type, neither the pre-hooks nor the capture nor the creation
\* of the destination directory have been executed.
C9_UnsupportedRejectedFirst ==
  err = "failed to create compressor" =>
    /\ ~HasStage("pre_hooks")
    /\ ~HasStage("capture")
    /\ ~HasStage("mkdir_all")

\* C10 as stated: once TarGzCompressor.Compress has returned, with or
\* without an error, the file <destination>.tmp.tar does not exist.
C10_TmpTarRemoved ==
  (HasStage("compress") /\ NewCompressor(compressionType) = "TarGzCompressor")
    => \A e \in dir : e.name # TmpTar(filename)

\* C11: ExecuteBackup is called for the configured backups one by one in
\* their order, none twice and none skipped, whatever the earlier calls
\* returned; when main exits, it has been called for all of them,
\* successCount + errorCount is their number, errorCount is the number of
\* calls that returned an error, and the exit status is non-zero exactly
\* when errorCount > 0, whatever the hooks returned.
C11_EveryBackupOnceInOrder ==
  /\ attempted = [k \in 1..Len(attempted) |-> k]
  /\ Len(attempted) <= Len(cfg.Backups)
  /\ Len(results) \in {Len(attempted) - 1, Len(attempted)} \cap Nat
  /\ pc = "exit" =>
       /\ Len(attempted) = Len(cfg.Backups)
       /\ successCount + errorCount = Len(cfg.Backups)
       /\ errorCount = Cardinality({ k \in DOMAIN results : results[k] # "nil" })
       /\ (exitCode # 0) <=> (errorCount > 0)

C11_Witness ==
  /\ pc = "exit"
  /\ attempted = <<1, 2>>
  /\ results[1] # "nil" /\ results[2] = "nil"
  /\ Failed("post_hooks") /\ Failed("global_post_hooks")
  /\ successCount = 1 /\ errorCount = 1 /\ exitCode = 1

\* C12: when ApplyRetention has computed its keep-set, os.Remove is called
\* on every candidate that is not kept, whether or not another removal
\* failed; each of them is gone afterwards unless its own removal failed,
\* every other entry is still there, and no error is returned.
C12_BestEffortDeletion ==
  last.ran =>
    /\ ~last.err
    /\ last.attempted = { f.Path : f \in last.files \ last.keep }
    /\ last.failed \subseteq last.attempted
    /\ \A e \in last.before :
         e \in last.after <=> (e.name \notin last.attempted \/ e.name \in last.failed)
    /\ last.after \subseteq last.before

C12_Witness ==
  /\ last.ran /\ ~last.err
  /\ Cardinality(last.failed) = 1
  /\ Cardinality(last.attempted) = 3
  /\ Cardinality(Removed(last)) = 2
  /\ last.keep # {}

\* The policy ApplyRetention was called with.
PolicyInForce == IF i > 0 THEN retentionPolicy ELSE policy

\* C13: when ApplyRetention has run with a policy of which some count is
\* positive, a candidate that is strictly newer than every other candidate
\* is in the keep-set and is still in the directory; hence, when
\* ExecuteBackup has written its archive at an instant later than that of
\* every other candidate, the archive is in the directory after the
\* retention stage.
C13_NewestArchiveSurvives ==
  (last.ran /\ PolicySum(PolicyInForce) > 0) =>
    /\ \A f \in last.files :
         (\A x \in last.files \ {f} : x.Time < f.Time)
           => (f \in last.keep /\ File(f.Path) \in dir)
    /\ (Succeeded("compress")
          /\ \A x \in last.files : x.Path # filename => x.Time < now)
         => (File(filename) \in dir /\ [Path |-> filename, Time |-> now] \in last.keep)

C13_Witness ==
  /\ pc = "returned" /\ err = "nil"
  /\ i = 2 /\ results = <<"nil">>
  /\ last.ran /\ PolicySum(PolicyInForce) > 0
  /\ \A x \in last.files : x.Path # filename => x.Time < now
  /\ Removed(last) # {}
  /\ File(filename) \in dir

\* C14 as stated: the only step that adds a file to the destination
\* directory is a compression stage that succeeds, and it adds the archive
\* of its run and nothing else; a run that fails in its capture or in its
\* compression leaves no new file there, so that every candidate of a later
\* ApplyRetention is a complete archive.
C14_OnlyCompleteArchives ==
  [][ \/ dir' \subseteq dir
      \/ /\ pc = "compress" /\ pc' = "retention"
         /\ dir' = dir \cup { File(filename) } ]_vars

====
